---------------------------- MODULE Spec2Model ----------------------------
(***************************************************************************)
(* A model of core/integrations/githubReader.js (class GitHubReader).      *)
(*                                                                         *)
(* Every public method is an async function.  A call is modelled as a      *)
(* small process: its position (pc), its local variables, the transport    *)
(* (octokit) requests it has issued and not yet seen answered (inflight),  *)
(* the ordered record of all requests and their outcomes (log) and the     *)
(* value the caller finally receives (result).  Two call slots exist so    *)
(* that two calls on one reader can be in flight together.                 *)
(*                                                                         *)
(* The remote side is the "world": the search index, the account table,    *)
(* the file tree and the README files of the repository.  It is chosen by  *)
(* Init and never changes (a snapshot).  Independently of the world, each  *)
(* transport request may be answered, fail, or be aborted by the caller.   *)
(***************************************************************************)
EXTENDS Integers, Sequences, FiniteSets, TLC

VARIABLES
    world,      \* the remote snapshot: [index, accounts, tree, readmes, repo]
    op,         \* op[c]: the public method call slot c runs, or "idle"
    args,       \* args[c]: the arguments of the call
    pc,         \* pc[c]: position of the call
    inflight,   \* inflight[c]: transport requests issued and not yet settled
    log,        \* log[c]: sequence of [req, outcome] of settled requests
    issued,     \* issued[c]: sequence of all requests issued, in issue order
    result,     \* result[c]: what the caller receives
    fb,         \* fb[c]: locals of findBusinesses
    lf,         \* lf[c]: call stack of listRepoFiles (one frame per recursion)
    ar          \* ar[c]: locals of analyzeRepository

vars == <<world, op, args, pc, inflight, log, issued, result, fb, lf, ar>>

Calls == {1, 2}

----------------------------------------------------------------------------
(* Bounds of the model *)

\* longest search result the remote index holds
MaxRepos == 3

----------------------------------------------------------------------------
(* Generic helpers *)

Min(a, b) == IF a < b THEN a ELSE b

Range(s) == {s[i] : i \in 1..Len(s)}

RECURSIVE SumSeq(_)
SumSeq(s) == IF s = <<>> THEN 0 ELSE Head(s) + SumSeq(Tail(s))

RECURSIVE FilterSeq(_, _)
\* the subsequence of s whose elements are in the set keep
FilterSeq(s, keep) ==
    IF s = <<>> THEN <<>>
    ELSE IF Head(s) \in keep THEN <<Head(s)>> \o FilterSeq(Tail(s), keep)
         ELSE FilterSeq(Tail(s), keep)

\* JS values that are absent are modelled as the empty set, present scalar
\* values as a singleton set (so that both have one TLA+ type).
Undefined == {}
Some(v) == {v}
\* JS truthiness of an optional string: undefined and "" are falsy
TruthyStr(x) == \E v \in x : v /= ""
\* JS truthiness of an optional number: undefined and 0 are falsy
TruthyNum(x) == \E v \in x : v /= 0

----------------------------------------------------------------------------
(* Text: a string is the sequence of its characters *)

UpperCase == <<"A", "B", "C", "D", "E", "F", "G", "H", "I", "J", "K", "L", "M",
               "N", "O", "P", "Q", "R", "S", "T", "U", "V", "W", "X", "Y", "Z">>
LowerCase == <<"a", "b", "c", "d", "e", "f", "g", "h", "i", "j", "k", "l", "m",
               "n", "o", "p", "q", "r", "s", "t", "u", "v", "w", "x", "y", "z">>

ToLowerChar(ch) ==
    IF \E i \in 1..Len(UpperCase) : UpperCase[i] = ch
    THEN LowerCase[CHOOSE i \in 1..Len(UpperCase) : UpperCase[i] = ch]
    ELSE ch

\* String.prototype.toLowerCase
ToLowerCase(str) == [i \in 1..Len(str) |-> ToLowerChar(str[i])]

\* String.prototype.includes
Includes(str, sub) ==
    \E k \in 0..(Len(str) - Len(sub)) : SubSeq(str, k + 1, k + Len(sub)) = sub

\* position of the last "." of a name, 0 if there is none
LastDot(name) ==
    IF \E i \in 1..Len(name) : name[i] = "."
    THEN CHOOSE i \in 1..Len(name) :
            name[i] = "." /\ \A j \in (i + 1)..Len(name) : name[j] /= "."
    ELSE 0

\* path.extname of the Node.js path module, for a name without separators:
\* from the last "." to the end; "" if there is no "." or only a leading one
Extname(name) ==
    IF LastDot(name) <= 1 THEN <<>> ELSE SubSeq(name, LastDot(name), Len(name))

----------------------------------------------------------------------------
(* Text encodings *)

\* the printable ASCII characters with their codes: 32 (space) to 95, and
\* 97 (a) to 126
AsciiFrom32 ==
    << " ", "!", "\"", "#", "$", "%", "&", "'", "(", ")", "*", "+",
       ",", "-", ".", "/", "0", "1", "2", "3", "4", "5", "6", "7",
       "8", "9", ":", ";", "<", "=", ">", "?", "@", "A", "B", "C",
       "D", "E", "F", "G", "H", "I", "J", "K", "L", "M", "N", "O",
       "P", "Q", "R", "S", "T", "U", "V", "W", "X", "Y", "Z", "[",
       "\\", "]", "^", "_" >>

AsciiFrom97 ==
    << "a", "b", "c", "d", "e", "f", "g", "h", "i", "j", "k", "l",
       "m", "n", "o", "p", "q", "r", "s", "t", "u", "v", "w", "x",
       "y", "z", "{", "|", "}", "~" >>

\* the byte of a character / the character of a byte (UTF-8 of ASCII text)
CharCode(ch) ==
    IF \E i \in 1..Len(AsciiFrom32) : AsciiFrom32[i] = ch
    THEN 31 + CHOOSE i \in 1..Len(AsciiFrom32) : AsciiFrom32[i] = ch
    ELSE 96 + CHOOSE i \in 1..Len(AsciiFrom97) : AsciiFrom97[i] = ch

CharOfCode(b) == IF b < 96 THEN AsciiFrom32[b - 31] ELSE AsciiFrom97[b - 96]

Base64Alphabet ==
    << "A", "B", "C", "D", "E", "F", "G", "H", "I", "J", "K", "L", "M",
       "N", "O", "P", "Q", "R", "S", "T", "U", "V", "W", "X", "Y", "Z",
       "a", "b", "c", "d", "e", "f", "g", "h", "i", "j", "k", "l", "m",
       "n", "o", "p", "q", "r", "s", "t", "u", "v", "w", "x", "y", "z",
       "0", "1", "2", "3", "4", "5", "6", "7", "8", "9", "+", "/" >>

SextetChar(v) == Base64Alphabet[v + 1]
SextetOf(ch) == (CHOOSE i \in 1..Len(Base64Alphabet) : Base64Alphabet[i] = ch) - 1

\* the base64 text the remote side sends for a sequence of bytes
RECURSIVE Base64OfBytes(_)
Base64OfBytes(bytes) ==
    IF bytes = <<>> THEN <<>>
    ELSE IF Len(bytes) = 1 THEN
        << SextetChar(bytes[1] \div 4), SextetChar((bytes[1] % 4) * 16), "=", "=" >>
    ELSE IF Len(bytes) = 2 THEN
        << SextetChar(bytes[1] \div 4),
           SextetChar((bytes[1] % 4) * 16 + bytes[2] \div 16),
           SextetChar((bytes[2] % 16) * 4), "=" >>
    ELSE
        << SextetChar(bytes[1] \div 4),
           SextetChar((bytes[1] % 4) * 16 + bytes[2] \div 16),
           SextetChar((bytes[2] % 16) * 4 + bytes[3] \div 64),
           SextetChar(bytes[3] % 64) >>
        \o Base64OfBytes(SubSeq(bytes, 4, Len(bytes)))

Base64Encode(str) == Base64OfBytes([i \in 1..Len(str) |-> CharCode(str[i])])

\* the bytes of a sequence of sextets
RECURSIVE BytesOfSextets(_)
BytesOfSextets(sx) ==
    IF Len(sx) < 2 THEN <<>>
    ELSE IF Len(sx) = 2 THEN << sx[1] * 4 + sx[2] \div 16 >>
    ELSE IF Len(sx) = 3 THEN
        << sx[1] * 4 + sx[2] \div 16, (sx[2] % 16) * 16 + sx[3] \div 4 >>
    ELSE
        << sx[1] * 4 + sx[2] \div 16,
           (sx[2] % 16) * 16 + sx[3] \div 4,
           (sx[3] % 4) * 64 + sx[4] >>
        \o BytesOfSextets(SubSeq(sx, 5, Len(sx)))

RECURSIVE WithoutPadding(_)
WithoutPadding(b64) ==
    IF b64 = <<>> THEN <<>>
    ELSE IF Head(b64) = "=" THEN <<>>
    ELSE <<Head(b64)>> \o WithoutPadding(Tail(b64))

\* Buffer.from(content, 'base64').toString('utf8'), for ASCII text
Base64Decode(b64) ==
    LET sx == [i \in 1..Len(WithoutPadding(b64)) |-> SextetOf(WithoutPadding(b64)[i])]
        bytes == BytesOfSextets(sx)
    IN  [i \in 1..Len(bytes) |-> CharOfCode(bytes[i])]

----------------------------------------------------------------------------
(* Outcomes of a transport request *)

\* "ok": the promise resolves.  "error": it rejects (network, auth, rate
\* limit, 404).  "aborted": it rejects because the caller cancelled it.
\* The reader has no code that tells the last two apart.
Rejections == {"error", "aborted"}
Outcomes == {"ok"} \cup Rejections


----------------------------------------------------------------------------
(* The remote snapshot *)

\* Owner logins.  "7" is a login made of digits only and "constructor" is a
\* login that is also the name of a property every JS object inherits; both
\* are valid GitHub logins.
Owners == {"acme", "7", "constructor"}

StarValues == {1, 2}

\* the account data users.getByUsername returns (orgData.type,
\* orgData.public_repos)
AccountValues ==
    { [type |-> "Organization", public_repos |-> 5],
      [type |-> "User",         public_repos |-> 5],
      [type |-> "User",         public_repos |-> 6] }

\* the search index: the items search.repos returns, best first.  A repository
\* is named by its rank, so the repositories of one index are distinct.
IndexesOfLen(n) ==
    { [i \in 1..n |-> [name |-> i,
                       owner |-> [login |-> f[i][1]],
                       stargazers_count |-> f[i][2]]] :
      f \in [1..n -> Owners \X StarValues] }

IndexSet == UNION { IndexesOfLen(n) : n \in 0..MaxRepos }

OwnersOf(index) == { index[i].owner.login : i \in 1..Len(index) }

NoTree == <<>>
NoReadmes == [n \in {} |-> <<>>]
NoRepo == [exists |-> FALSE]

----------------------------------------------------------------------------
(* Transport requests *)

Req(kind, key, q, perPage) ==
    [kind |-> kind, key |-> key, q |-> q, per_page |-> perPage]

SearchReq(q, perPage) == Req("search.repos", "", q, perPage)
UserReq(username)     == Req("users.getByUsername", username, <<>>, 0)
ContentReq(path)      == Req("repos.getContent", path, <<>>, 0)
RepoReq               == Req("repos.get", "", <<>>, 0)

\* bookkeeping of a request being issued / settled by call c
Issue(c, req) ==
    /\ inflight' = [inflight EXCEPT ![c] = @ \cup {req}]
    /\ issued' = [issued EXCEPT ![c] = Append(@, req)]

Settle(c, req, outcome) ==
    /\ inflight' = [inflight EXCEPT ![c] = @ \ {req}]
    /\ log' = [log EXCEPT ![c] = Append(@, [req |-> req, outcome |-> outcome])]

\* variant: the next request is issued while the previous one is still in
\* flight
SettleAndIssueOverlapped(c, req, outcome, next) ==
    /\ inflight' = [inflight EXCEPT ![c] = @ \cup {next}]
    /\ log' = [log EXCEPT ![c] = Append(@, [req |-> req, outcome |-> outcome])]
    /\ issued' = [issued EXCEPT ![c] = Append(@, next)]

\* a request answered and the next one issued in the same synchronous stretch
SettleAndIssue(c, req, outcome, next) ==
    /\ inflight' = [inflight EXCEPT ![c] = (@ \ {req}) \cup {next}]
    /\ log' = [log EXCEPT ![c] = Append(@, [req |-> req, outcome |-> outcome])]
    /\ issued' = [issued EXCEPT ![c] = Append(@, next)]

\* the call returns value v to its caller
Return(c, v) ==
    /\ result' = [result EXCEPT ![c] = [kind |-> "return", value |-> v]]
    /\ pc' = [pc EXCEPT ![c] = "done"]

Pending == [kind |-> "pending", value |-> <<>>]

----------------------------------------------------------------------------
(* searchRepositories *)

DefaultPerPage == 30

\* options.per_page || 30
PerPageOf(perPage) == IF TruthyNum(perPage) THEN CHOOSE v \in perPage : TRUE
                      ELSE DefaultPerPage

\* response.data.items of search.repos: the best per_page items of the index
SearchItems(req) == SubSeq(world.index, 1, Min(req.per_page, Len(world.index)))

\* the object searchRepositories builds from one item
MapRepo(item) ==
    [name |-> item.name, owner |-> item.owner.login, stars |-> item.stargazers_count]

\* variant: the catch hands on the items instead of []
SearchRepositoriesReturnNoCatch(req, outcome) ==
    [i \in 1..Len(SearchItems(req)) |-> MapRepo(SearchItems(req)[i])]

\* the value searchRepositories returns: the mapped items, or [] from its catch
SearchRepositoriesReturn(req, outcome) ==
    IF outcome = "ok"
    THEN [i \in 1..Len(SearchItems(req)) |-> MapRepo(SearchItems(req)[i])]
    ELSE <<>>

----------------------------------------------------------------------------
(* findBusinesses: the query *)

\* A criteria object.  isNull: the caller passed null (the default {} only
\* replaces undefined).  Every key is optional.
Criteria(ind, tech, loc, comp, minStars, limit) ==
    [isNull |-> FALSE, industry |-> ind, technology |-> tech, location |-> loc,
     company |-> comp, minStars |-> minStars, limit |-> limit]

EmptyCriteria == Criteria(Undefined, Undefined, Undefined, Undefined, Undefined, Undefined)
NullCriteria == [EmptyCriteria EXCEPT !.isNull = TRUE]

\* Strings are built from fragments: a template literal is the sequence of
\* its pieces, and numbers are interpolated as themselves.
StrOf(x) == CHOOSE v \in x : TRUE

\* queries.join(' ')
RECURSIVE Join(_, _)
Join(parts, sep) ==
    IF parts = <<>> THEN <<>>
    ELSE IF Len(parts) = 1 THEN Head(parts)
    ELSE Head(parts) \o <<sep>> \o Join(Tail(parts), sep)

\* the clauses pushed onto `queries`, in the order of the if statements
QueryClauses(criteria) ==
       (IF TruthyStr(criteria.industry)
        THEN << <<"topic:", StrOf(criteria.industry)>> >> ELSE <<>>)
    \o (IF TruthyStr(criteria.technology)
        THEN << <<"language:", StrOf(criteria.technology)>> >> ELSE <<>>)
    \o (IF TruthyStr(criteria.location)
        THEN << <<"location:\"", StrOf(criteria.location), "\"">> >> ELSE <<>>)
    \o (IF TruthyStr(criteria.company)
        THEN << <<StrOf(criteria.company), " in:name,description">> >> ELSE <<>>)
    \o (IF TruthyNum(criteria.minStars)
        THEN << <<"stars:>=", StrOf(criteria.minStars)>> >> ELSE <<>>)

BuildQuery(criteria) ==
    LET queries == QueryClauses(criteria)
    IN  Join(IF queries = <<>> THEN << <<"type:org">> >> ELSE queries, " ")

DefaultLimit == 50

\* per_page: criteria.limit || 50
LimitOf(criteria) == IF TruthyNum(criteria.limit) THEN StrOf(criteria.limit)
                     ELSE DefaultLimit

----------------------------------------------------------------------------
(* findBusinesses: the object `businesses` used as a map *)

\* `businesses` is a plain object literal: an ordered list of own
\* properties (insertion order) on top of Object.prototype.
ObjectPrototypeKeys ==
    {"constructor", "toString", "toLocaleString", "valueOf", "hasOwnProperty",
     "isPrototypeOf", "propertyIsEnumerable", "__proto__"}

HasOwn(obj, key) == \E i \in 1..Len(obj) : obj[i].key = key

OwnValue(obj, key) == obj[CHOOSE i \in 1..Len(obj) : obj[i].key = key].value

\* variant: own properties are not found by the test
HasTruthyInheritedOnly(obj, key) == key \in ObjectPrototypeKeys

\* !businesses[owner] is false: an own property (always an object here) or
\* an inherited one (a function or the prototype object) is truthy
HasTruthy(obj, key) == HasOwn(obj, key) \/ key \in ObjectPrototypeKeys

\* businesses[owner] = value (the key is never an own property yet)
SetNew(obj, key, value) == Append(obj, [key |-> key, value |-> value])

\* businesses[owner].repositories.push(repo) on an own property
PushRepo(obj, key, repo) ==
    [i \in 1..Len(obj) |->
        IF obj[i].key = key
        THEN [obj[i] EXCEPT !.value.repositories = Append(@, repo)]
        ELSE obj[i]]

\* The keys that are canonical array indices, with their numeric value.
ArrayIndexValue == ("7" :> 7)
IsArrayIndex(key) == key \in DOMAIN ArrayIndexValue

RECURSIVE InsertAscending(_, _)
InsertAscending(sorted, e) ==
    IF sorted = <<>> THEN <<e>>
    ELSE IF ArrayIndexValue[e.key] < ArrayIndexValue[Head(sorted).key]
         THEN <<e>> \o sorted
         ELSE <<Head(sorted)>> \o InsertAscending(Tail(sorted), e)

RECURSIVE IndexEntriesAscending(_)
IndexEntriesAscending(obj) ==
    IF obj = <<>> THEN <<>>
    ELSE IF IsArrayIndex(obj[Len(obj)].key)
         THEN InsertAscending(IndexEntriesAscending(SubSeq(obj, 1, Len(obj) - 1)),
                              obj[Len(obj)])
         ELSE IndexEntriesAscending(SubSeq(obj, 1, Len(obj) - 1))

RECURSIVE StringEntries(_)
StringEntries(obj) ==
    IF obj = <<>> THEN <<>>
    ELSE IF IsArrayIndex(Head(obj).key) THEN StringEntries(Tail(obj))
         ELSE <<Head(obj)>> \o StringEntries(Tail(obj))

\* Object.values(businesses): own properties with array-index keys first, in
\* ascending numeric order, then the other keys in insertion order
ObjectValues(obj) ==
    LET es == IndexEntriesAscending(obj) \o StringEntries(obj)
    IN  [i \in 1..Len(es) |-> es[i].value]

----------------------------------------------------------------------------
(* findBusinesses: profiles, filter, sort *)

\* the entry built from orgData after a successful lookup
KnownProfile(owner, orgData) ==
    [username |-> owner, type |-> orgData.type,
     public_repos |-> Some(orgData.public_repos), repositories |-> <<>>]

\* variant: the basic entry is given the type of a personal account
UnknownProfileAsUser(owner) ==
    [username |-> owner, type |-> "User",
     public_repos |-> Undefined, repositories |-> <<>>]

\* the basic entry built in the catch of a failed lookup
UnknownProfile(owner) ==
    [username |-> owner, type |-> "unknown",
     public_repos |-> Undefined, repositories |-> <<>>]

\* the condensed repository pushed onto businesses[owner].repositories
CondensedRepo(repo) == [name |-> repo.name, stars |-> repo.stars]

MinPublicRepos == 5

\* variant: the basic entry of a failed lookup passes the filter too
IsBusinessOrUnknown(business) ==
    \/ business.type \in {"Organization", "unknown"}
    \/ \E n \in business.public_repos : n > MinPublicRepos

\* business.type === 'Organization' || business.public_repos > 5
\* (undefined > 5 is false)
IsBusiness(business) ==
    \/ business.type = "Organization"
    \/ \E n \in business.public_repos : n > MinPublicRepos

RECURSIVE FilterBusinesses(_)
FilterBusinesses(list) ==
    IF list = <<>> THEN <<>>
    ELSE IF IsBusiness(Head(list)) THEN <<Head(list)>> \o FilterBusinesses(Tail(list))
         ELSE FilterBusinesses(Tail(list))

\* a.repositories.reduce((sum, repo) => sum + repo.stars, 0)
RECURSIVE Score(_)
Score(business) ==
    IF business.repositories = <<>> THEN 0
    ELSE Head(business.repositories).stars
         + Score([business EXCEPT !.repositories = Tail(@)])

\* variant: the comparator with its operands exchanged
CompareAscending(a, b) == Score(a) - Score(b)

\* the comparator (a, b) => bScore - aScore
Compare(a, b) == Score(b) - Score(a)

\* Array.prototype.sort is stable: b is placed after every element it does
\* not have to precede
RECURSIVE InsertSorted(_, _)
InsertSorted(sorted, b) ==
    IF sorted = <<>> THEN <<b>>
    ELSE IF Compare(Head(sorted), b) > 0
         THEN <<b>> \o sorted
         ELSE <<Head(sorted)>> \o InsertSorted(Tail(sorted), b)

RECURSIVE SortBusinesses(_)
SortBusinesses(list) ==
    IF list = <<>> THEN <<>>
    ELSE InsertSorted(SortBusinesses(SubSeq(list, 1, Len(list) - 1)), list[Len(list)])

\* businessList
BusinessList(businesses) == SortBusinesses(FilterBusinesses(ObjectValues(businesses)))

----------------------------------------------------------------------------
(* findBusinesses: the call *)

FbIdle == [repositories |-> <<>>, i |-> 0, businesses |-> <<>>]

\* variant: the outer catch returns a list holding an entry that reports the
\* error
CaughtBusinessesReported ==
    <<[username |-> "error", type |-> "error", public_repos |-> Undefined,
       repositories |-> <<>>]>>

\* the value the outer catch of findBusinesses returns: []
CaughtBusinesses == <<>>

\* the repository and owner the for loop is at
CurRepo(c) == fb[c].repositories[fb[c].i]
CurOwner(c) == CurRepo(c).owner

\* Entry: the query is built and the search issued.  Reading a key of a
\* null criteria throws a TypeError, which the outer catch turns into [].
FBStart(c) ==
    /\ op[c] = "findBusinesses" /\ pc[c] = "start"
    /\ IF args[c].criteria.isNull
       THEN /\ Return(c, CaughtBusinesses)
            /\ UNCHANGED <<inflight, issued>>
       ELSE /\ Issue(c, SearchReq(BuildQuery(args[c].criteria),
                                  PerPageOf(Some(LimitOf(args[c].criteria)))))
            /\ pc' = [pc EXCEPT ![c] = "fb_search"]
            /\ UNCHANGED result
    /\ UNCHANGED <<world, op, args, log, fb, lf, ar>>

\* searchRepositories settles: `repositories` is its return value, the map
\* `businesses` is created empty and the loop begins
FBSearchSettled(c) ==
    /\ op[c] = "findBusinesses" /\ pc[c] = "fb_search"
    /\ \E req \in inflight[c], outcome \in Outcomes :
          /\ req.kind = "search.repos"
          /\ Settle(c, req, outcome)
          /\ fb' = [fb EXCEPT ![c] =
                       [repositories |-> SearchRepositoriesReturn(req, outcome),
                        i |-> 1, businesses |-> <<>>]]
    /\ pc' = [pc EXCEPT ![c] = "fb_loop"]
    /\ UNCHANGED <<world, op, args, issued, result, lf, ar>>

\* loop body, !businesses[owner] true: the owner's account is requested
FBLookup(c) ==
    /\ op[c] = "findBusinesses" /\ pc[c] = "fb_loop"
    /\ fb[c].i <= Len(fb[c].repositories)
    /\ ~HasTruthy(fb[c].businesses, CurOwner(c))
    /\ Issue(c, UserReq(CurOwner(c)))
    /\ pc' = [pc EXCEPT ![c] = "fb_lookup"]
    /\ UNCHANGED <<world, op, args, log, result, fb, lf, ar>>

\* variant: a profile another call already holds for the owner is reused
ProfileAfterLookupCached(owner, outcome) ==
    IF \E d \in Calls : HasOwn(fb[d].businesses, owner)
    THEN [OwnValue(fb[CHOOSE d \in Calls : HasOwn(fb[d].businesses, owner)].businesses,
                   owner) EXCEPT !.repositories = <<>>]
    ELSE IF outcome = "ok" THEN KnownProfile(owner, world.accounts[owner])
    ELSE UnknownProfile(owner)

\* the profile stored for the owner once the lookup has settled
ProfileAfterLookup(owner, outcome) ==
    IF outcome = "ok" THEN KnownProfile(owner, world.accounts[owner])
    ELSE UnknownProfile(owner)

\* the lookup settles: the entry is created (from orgData, or the basic entry
\* in the inner catch) and the repository is pushed onto it
FBLookupSettled(c) ==
    /\ op[c] = "findBusinesses" /\ pc[c] = "fb_lookup"
    /\ \E req \in inflight[c], outcome \in Outcomes :
          /\ req.kind = "users.getByUsername"
          /\ Settle(c, req, outcome)
          /\ fb' = [fb EXCEPT
                ![c].businesses =
                    PushRepo(SetNew(@, req.key, ProfileAfterLookup(req.key, outcome)),
                             CurOwner(c), CondensedRepo(CurRepo(c))),
                ![c].i = @ + 1]
    /\ pc' = [pc EXCEPT ![c] = "fb_loop"]
    /\ UNCHANGED <<world, op, args, issued, result, lf, ar>>

\* loop body, !businesses[owner] false and the owner has an entry: push
FBPush(c) ==
    /\ op[c] = "findBusinesses" /\ pc[c] = "fb_loop"
    /\ fb[c].i <= Len(fb[c].repositories)
    /\ HasOwn(fb[c].businesses, CurOwner(c))
    /\ fb' = [fb EXCEPT
          ![c].businesses = PushRepo(@, CurOwner(c), CondensedRepo(CurRepo(c))),
          ![c].i = @ + 1]
    /\ UNCHANGED <<world, op, args, pc, inflight, log, issued, result, lf, ar>>

\* loop body, !businesses[owner] false because the key is inherited from
\* Object.prototype: the inherited value has no `repositories`, .push throws
\* a TypeError and the outer catch returns []
FBPushThrows(c) ==
    /\ op[c] = "findBusinesses" /\ pc[c] = "fb_loop"
    /\ fb[c].i <= Len(fb[c].repositories)
    /\ HasTruthy(fb[c].businesses, CurOwner(c))
    /\ ~HasOwn(fb[c].businesses, CurOwner(c))
    /\ Return(c, CaughtBusinesses)
    /\ UNCHANGED <<world, op, args, inflight, log, issued, fb, lf, ar>>

\* after the loop: filter, sort, return
FBFinish(c) ==
    /\ op[c] = "findBusinesses" /\ pc[c] = "fb_loop"
    /\ fb[c].i > Len(fb[c].repositories)
    /\ Return(c, BusinessList(fb[c].businesses))
    /\ UNCHANGED <<world, op, args, inflight, log, issued, fb, lf, ar>>

NextFB ==
    \E c \in Calls :
        \/ FBStart(c)
        \/ FBSearchSettled(c)
        \/ FBLookup(c)
        \/ FBLookupSettled(c)
        \/ FBPush(c)
        \/ FBPushThrows(c)
        \/ FBFinish(c)

----------------------------------------------------------------------------
(* listRepoFiles: the remote tree *)

FileItem(name, path) == [type |-> "file", name |-> name, path |-> path]
DirItem(name, path) == [type |-> "dir", name |-> name, path |-> path]

\* the directories a tree may have, and what each may list, in listing order
TreeDirs == {"", "src", "src/lib"}

FullListing(dir) ==
    CASE dir = "" ->
            << FileItem(<<"a", ".", "j", "s">>, "a.js"),
               DirItem(<<"s", "r", "c">>, "src"),
               FileItem(<<"c", ".", "m", "d">>, "c.md") >>
      [] dir = "src" ->
            << DirItem(<<"l", "i", "b">>, "src/lib"),
               FileItem(<<"B", ".", "J", "S">>, "src/B.JS") >>
      [] dir = "src/lib" ->
            << FileItem(<<"M", "a", "k", "e", "f", "i", "l", "e">>, "src/lib/Makefile") >>

\* the subsequences of a listing
SubListings(listing) ==
    { FilterSeq(listing, keep) : keep \in SUBSET Range(listing) }

ListsDir(tree, dir, sub) ==
    \E i \in 1..Len(tree[dir]) : tree[dir][i].type = "dir" /\ tree[dir][i].path = sub

\* a tree gives each directory its listing; a directory no listing names is
\* not part of the tree and is given the empty listing
WellFormedTree(tree) ==
    /\ ~ListsDir(tree, "", "src") => tree["src"] = <<>>
    /\ ~ListsDir(tree, "src", "src/lib") => tree["src/lib"] = <<>>

\* the entries of the tree that are files, and the directories
ItemsOf(tree) == UNION { Range(tree[d]) : d \in TreeDirs }
IsDirPath(tree, path) ==
    path = "" \/ \E it \in ItemsOf(tree) : it.type = "dir" /\ it.path = path
IsFilePath(tree, path) ==
    \E it \in ItemsOf(tree) : it.type = "file" /\ it.path = path

\* response.data of repos.getContent for a path that exists: the listing of a
\* directory, the single object of a file
ContentData(tree, path) ==
    IF IsDirPath(tree, path) THEN [isArray |-> TRUE, items |-> tree[path]]
    ELSE [isArray |-> FALSE,
          items |-> <<CHOOSE it \in ItemsOf(tree) : it.type = "file" /\ it.path = path>>]

\* the outcomes repos.getContent can have for a path: a path that does not
\* exist is always rejected (404)
ContentOutcomes(tree, path) ==
    IF IsDirPath(tree, path) \/ IsFilePath(tree, path) THEN Outcomes ELSE Rejections

----------------------------------------------------------------------------
(* listRepoFiles: the call *)

\* the methods a JS string has (those the reader could call)
StringMethods == {"toLowerCase", "includes", "split", "substring"}

\* path.extname(item.name), line 39: inside listRepoFiles `path` is the
\* method's parameter, a string (line 25), not the module required at line 3.
\* A string has no method extname, so the call throws a TypeError.
ExtnameCallThrows == "extname" \notin StringMethods

\* extensions.length === 0 || extensions.includes(fileExt)
ExtensionSelected(extensions, fileExt) ==
    extensions = <<>> \/ fileExt \in Range(extensions)

\* the object pushed for a selected file
FileObject(item, fileExt) ==
    [name |-> item.name, path |-> item.path, type |-> "file", extension |-> fileExt]

\* variant: the catch returns a list holding an entry that reports the error
CaughtFilesReported == <<[name |-> <<>>, path |-> "error", type |-> "error", extension |-> <<>>]>>

\* the value the catch of listRepoFiles returns: []
CaughtFiles == <<>>

\* one activation of listRepoFiles
Frame(path) == [path |-> path, contents |-> <<>>, i |-> 0, files |-> <<>>]

Top(c) == lf[c][Len(lf[c])]
TopItem(c) == Top(c).contents[Top(c).i]

\* the running activation returns v: to the caller of listRepoFiles, or into
\* the loop of the activation that awaits it (files = files.concat(subFiles))
FrameReturns(c, v) ==
    IF Len(lf[c]) = 1
    THEN /\ lf' = [lf EXCEPT ![c] = <<>>]
         /\ Return(c, v)
    ELSE /\ lf' = [lf EXCEPT ![c] =
                     SubSeq(@, 1, Len(@) - 2) \o
                     <<[@[Len(@) - 1] EXCEPT !.files = @ \o v, !.i = @ + 1]>>]
         /\ pc' = [pc EXCEPT ![c] = "lf_loop"]
         /\ UNCHANGED result

\* entry: the listing of args.path is requested
LFStart(c) ==
    /\ op[c] = "listRepoFiles" /\ pc[c] = "start"
    /\ lf' = [lf EXCEPT ![c] = <<Frame(args[c].path)>>]
    /\ Issue(c, ContentReq(args[c].path))
    /\ pc' = [pc EXCEPT ![c] = "lf_wait"]
    /\ UNCHANGED <<world, op, args, log, result, fb, ar>>

\* variant: a rejected listing is requested again instead of being caught
LFSettledRetries(c) ==
    /\ op[c] = "listRepoFiles" /\ pc[c] = "lf_wait"
    /\ \E req \in inflight[c] :
       \E outcome \in ContentOutcomes(world.tree, req.key) :
          /\ req = ContentReq(Top(c).path)
          /\ IF outcome = "ok"
             THEN /\ Settle(c, req, outcome)
                  /\ lf' = [lf EXCEPT ![c][Len(lf[c])] =
                              [@ EXCEPT !.contents = ContentData(world.tree, req.key).items,
                                        !.i = 1]]
                  /\ pc' = [pc EXCEPT ![c] = "lf_loop"]
                  /\ UNCHANGED <<result, issued>>
             ELSE IF Len(issued[c]) <= Cardinality(TreeDirs)
             THEN /\ SettleAndIssue(c, req, outcome, req)
                  /\ UNCHANGED <<lf, pc, result>>
             ELSE /\ Settle(c, req, outcome)
                  /\ FrameReturns(c, CaughtFiles)
                  /\ UNCHANGED issued
    /\ UNCHANGED <<world, op, args, fb, ar>>

\* getContent settles: the loop starts over the listing, or the catch
\* returns [] from this activation
LFSettled(c) ==
    /\ op[c] = "listRepoFiles" /\ pc[c] = "lf_wait"
    /\ \E req \in inflight[c] :
       \E outcome \in ContentOutcomes(world.tree, req.key) :
          /\ req = ContentReq(Top(c).path)
          /\ Settle(c, req, outcome)
          /\ IF outcome = "ok"
             THEN /\ lf' = [lf EXCEPT ![c][Len(lf[c])] =
                              [@ EXCEPT !.contents = ContentData(world.tree, req.key).items,
                                        !.i = 1]]
                  /\ pc' = [pc EXCEPT ![c] = "lf_loop"]
                  /\ UNCHANGED result
             ELSE FrameReturns(c, CaughtFiles)
    /\ UNCHANGED <<world, op, args, issued, fb, ar>>

\* loop body, item.type === 'file': the extension is computed and the file
\* pushed if selected; a throw is caught and [] returned from this activation
LFFile(c) ==
    /\ op[c] = "listRepoFiles" /\ pc[c] = "lf_loop"
    /\ Top(c).i <= Len(Top(c).contents)
    /\ TopItem(c).type = "file"
    /\ IF ExtnameCallThrows
       THEN FrameReturns(c, CaughtFiles)
       ELSE LET fileExt == ToLowerCase(Extname(TopItem(c).name))
            IN  /\ lf' = [lf EXCEPT ![c][Len(lf[c])] =
                            [@ EXCEPT !.files =
                                 IF ExtensionSelected(args[c].extensions, fileExt)
                                 THEN Append(@, FileObject(TopItem(c), fileExt))
                                 ELSE @,
                              !.i = @ + 1]]
                /\ UNCHANGED <<pc, result>>
    /\ UNCHANGED <<world, op, args, inflight, log, issued, fb, ar>>

\* variant: listRepoFiles is called on an entry of any type
LFDirAnyEntry(c) ==
    /\ op[c] = "listRepoFiles" /\ pc[c] = "lf_loop"
    /\ Top(c).i <= Len(Top(c).contents)
    /\ Len(lf[c]) < 3
    /\ lf' = [lf EXCEPT ![c] = Append(@, Frame(TopItem(c).path))]
    /\ Issue(c, ContentReq(TopItem(c).path))
    /\ pc' = [pc EXCEPT ![c] = "lf_wait"]
    /\ UNCHANGED <<world, op, args, log, result, fb, ar>>

\* loop body, item.type === 'dir': listRepoFiles is called on the directory
LFDir(c) ==
    /\ op[c] = "listRepoFiles" /\ pc[c] = "lf_loop"
    /\ Top(c).i <= Len(Top(c).contents)
    /\ TopItem(c).type = "dir"
    /\ lf' = [lf EXCEPT ![c] = Append(@, Frame(TopItem(c).path))]
    /\ Issue(c, ContentReq(TopItem(c).path))
    /\ pc' = [pc EXCEPT ![c] = "lf_wait"]
    /\ UNCHANGED <<world, op, args, log, result, fb, ar>>

\* after the loop: return files
LFLoopEnd(c) ==
    /\ op[c] = "listRepoFiles" /\ pc[c] = "lf_loop"
    /\ Top(c).i > Len(Top(c).contents)
    /\ FrameReturns(c, Top(c).files)
    /\ UNCHANGED <<world, op, args, inflight, log, issued, fb, ar>>

NextLF ==
    \E c \in Calls :
        \/ LFStart(c)
        \/ LFSettled(c)
        \/ LFFile(c)
        \/ LFDir(c)
        \/ LFLoopEnd(c)

----------------------------------------------------------------------------
(* fetchRepoFile *)

\* what the repository holds under a README name
AbsentFile == [kind |-> "absent", text |-> <<>>]
TextFile(text) == [kind |-> "file", text |-> text]
Directory == [kind |-> "dir", text |-> <<>>]
\* a file the transport sends as it is, reporting an encoding other than base64
RawFile(text) == [kind |-> "raw", text |-> text]

\* response.data of repos.getContent for a file path: a file comes base64
\* encoded; a directory comes as an array, which has neither encoding nor
\* content
FileData(file) ==
    IF file.kind = "file"
    THEN [encoding |-> Some("base64"), content |-> Some(Base64Encode(file.text))]
    ELSE IF file.kind = "raw"
    THEN [encoding |-> Some("none"), content |-> Some(file.text)]
    ELSE [encoding |-> Undefined, content |-> Undefined]

FileOutcomes(file) == IF file.kind = "absent" THEN Rejections ELSE Outcomes

\* the value of a fetchRepoFile call once getContent has settled: the file
\* object with its content decoded (base64) or passed through, or null from
\* the catch.  The whole body is inside try/catch: the call never throws.
NullFile == [threw |-> FALSE, isNull |-> TRUE, content |-> Undefined]

\* variant: without the try/catch a rejected getContent is thrown on
FetchRepoFileReturnNoCatch(outcome, data) ==
    IF outcome = "ok"
    THEN [threw |-> FALSE, isNull |-> FALSE,
          content |-> IF data.encoding = Some("base64")
                      THEN Some(Base64Decode(StrOf(data.content)))
                      ELSE data.content]
    ELSE [threw |-> TRUE, isNull |-> FALSE, content |-> Undefined]

FetchRepoFileReturn(outcome, data) ==
    IF outcome = "ok"
    THEN [threw |-> FALSE, isNull |-> FALSE,
          content |-> IF data.encoding = Some("base64")
                      THEN Some(Base64Decode(StrOf(data.content)))
                      ELSE data.content]
    ELSE NullFile

\* entry of a fetchRepoFile call made by the caller: getContent is requested
\* for filePath
FFStart(c) ==
    /\ op[c] = "fetchRepoFile" /\ pc[c] = "start"
    /\ Issue(c, ContentReq(args[c].path))
    /\ pc' = [pc EXCEPT ![c] = "ff_wait"]
    /\ UNCHANGED <<world, op, args, log, result, fb, lf, ar>>

\* getContent settles: the file object or null is returned
FFSettled(c) ==
    /\ op[c] = "fetchRepoFile" /\ pc[c] = "ff_wait"
    /\ \E req \in inflight[c] :
       \E outcome \in FileOutcomes(world.readmes[req.key]) :
          LET r == FetchRepoFileReturn(outcome, FileData(world.readmes[req.key]))
          IN  /\ Settle(c, req, outcome)
              /\ result' = [result EXCEPT ![c] =
                     [kind |-> IF r.threw THEN "throw" ELSE "return", value |-> r]]
              /\ pc' = [pc EXCEPT ![c] = "done"]
    /\ UNCHANGED <<world, op, args, issued, fb, lf, ar>>

NextFF ==
    \E c \in Calls :
        \/ FFStart(c)
        \/ FFSettled(c)

----------------------------------------------------------------------------
(* analyzeRepository *)

BusinessKeywords ==
    << <<"c", "o", "m", "p", "a", "n", "y">>,
       <<"b", "u", "s", "i", "n", "e", "s", "s">>,
       <<"e", "n", "t", "e", "r", "p", "r", "i", "s", "e">>,
       <<"c", "o", "m", "m", "e", "r", "c", "i", "a", "l">>,
       <<"p", "r", "o", "d", "u", "c", "t">>,
       <<"s", "e", "r", "v", "i", "c", "e">>,
       <<"s", "o", "l", "u", "t", "i", "o", "n">>,
       <<"p", "l", "a", "t", "f", "o", "r", "m">>,
       <<"a", "p", "i">>,
       <<"s", "a", "a", "s">>,
       <<"s", "t", "a", "r", "t", "u", "p">>,
       <<"c", "o", "r", "p", "o", "r", "a", "t", "i", "o", "n">>,
       <<"i", "n", "c">>,
       <<"l", "l", "c">>,
       <<"l", "t", "d">>,
       <<"g", "m", "b", "h">> >>

PrimaryReadme == "README.md"
\* readmeFiles
ReadmeFiles == <<"README.rst", "README.txt", "README">>

HighStars == 100
ManyForks == 10
ActiveDays == 90

JsBool(b) == IF b THEN "true" ELSE "false"

\* businessIndicators.  Times are in days before Date.now().  hasTopics is
\* the value of `topics && topics.length > 0`: undefined when topics is.
BusinessIndicators(repoData) ==
    [hasLicense |-> JsBool(repoData.license),
     hasDescription |-> JsBool(TruthyStr(repoData.description)),
     hasWebsite |-> JsBool(TruthyStr(repoData.homepage)),
     highStars |-> JsBool(repoData.stargazers_count > HighStars),
     activeMaintenance |-> JsBool(repoData.updated_days_ago < ActiveDays),
     hasTopics |-> IF repoData.topics = Undefined THEN "undefined"
                   ELSE JsBool(Len(StrOf(repoData.topics)) > 0),
     hasContributors |-> JsBool(repoData.forks_count > ManyForks)]

\* variant: the README is matched as it is, without lower-casing
RECURSIVE KeywordMatchesCaseSensitive(_, _)
KeywordMatchesCaseSensitive(keywords, readmeContent) ==
    IF keywords = <<>> THEN <<>>
    ELSE (IF Includes(readmeContent, Head(keywords))
          THEN <<Head(keywords)>> ELSE <<>>)
         \o KeywordMatchesCaseSensitive(Tail(keywords), readmeContent)

\* businessKeywords.filter(keyword => readmeContent.toLowerCase().includes(keyword))
RECURSIVE KeywordMatches(_, _)
KeywordMatches(keywords, readmeContent) ==
    IF keywords = <<>> THEN <<>>
    ELSE (IF Includes(ToLowerCase(readmeContent), Head(keywords))
          THEN <<Head(keywords)>> ELSE <<>>)
         \o KeywordMatches(Tail(keywords), readmeContent)

\* variant: every indicator is counted
AllIndicators(ind) == Cardinality(DOMAIN ind)

\* Object.values(businessIndicators).filter(Boolean).length
TrueIndicators(ind) == Cardinality({ k \in DOMAIN ind : ind[k] = "true" })

NullAnalysis ==
    [isNull |-> TRUE, businessIndicators |-> <<>>, keywordMatches |-> <<>>,
     businessScore |-> 0]

\* the value returned once the README content is known; readmeContent
\* undefined makes .toLowerCase() throw, and the outer catch returns null
Analysis(repoData, readmeContent) ==
    IF readmeContent = Undefined THEN NullAnalysis
    ELSE LET ind == BusinessIndicators(repoData)
             kw == KeywordMatches(BusinessKeywords, StrOf(readmeContent))
         IN  [isNull |-> FALSE, businessIndicators |-> ind, keywordMatches |-> kw,
              businessScore |-> TrueIndicators(ind) + Len(kw)]

ArIdle == [repoData |-> NoRepo, try |-> 0]

\* the README name fetch number `try` asks for: 0 is the primary name, 1..3
\* the names of readmeFiles
ReadmeName(try) == IF try = 0 THEN PrimaryReadme ELSE ReadmeFiles[try]

\* entry: the repository metadata is requested
ARStart(c) ==
    /\ op[c] = "analyzeRepository" /\ pc[c] = "start"
    /\ Issue(c, RepoReq)
    /\ pc' = [pc EXCEPT ![c] = "ar_repo"]
    /\ UNCHANGED <<world, op, args, log, result, fb, lf, ar>>

\* repos.get settles: null from the outer catch, or repoData is kept and
\* fetchRepoFile(owner, repo, 'README.md') is called
ARRepoSettled(c) ==
    /\ op[c] = "analyzeRepository" /\ pc[c] = "ar_repo"
    /\ \E outcome \in (IF world.repo.exists THEN Outcomes ELSE Rejections) :
          IF outcome = "ok"
          THEN /\ SettleAndIssue(c, RepoReq, outcome, ContentReq(PrimaryReadme))
               /\ ar' = [ar EXCEPT ![c] = [repoData |-> world.repo, try |-> 0]]
               /\ pc' = [pc EXCEPT ![c] = "ar_readme"]
               /\ UNCHANGED result
          ELSE /\ Settle(c, RepoReq, outcome)
               /\ Return(c, NullAnalysis)
               /\ UNCHANGED <<issued, ar>>
    /\ UNCHANGED <<world, op, args, fb, lf>>

\* a fetchRepoFile call made for the README returns r.
\* Primary fetch (lines 261-263): a throw enters the catch, whose loop starts
\* with readmeFiles[0]; otherwise readmeContent is the content, or '' for null.
\* Fetch inside the loop (lines 267-277): a non-null file ends the loop; null
\* or a throw goes on to the next name, and after the last one readmeContent
\* is still ''.
ARReadmeSettled(c) ==
    /\ op[c] = "analyzeRepository" /\ pc[c] = "ar_readme"
    /\ LET req == ContentReq(ReadmeName(ar[c].try))
           file == world.readmes[req.key]
       IN  \E outcome \in FileOutcomes(file) :
           LET r == FetchRepoFileReturn(outcome, FileData(file))
               tryNext == IF ar[c].try = 0 THEN r.threw
                          ELSE (r.threw \/ r.isNull) /\ ar[c].try < Len(ReadmeFiles)
               readmeContent == IF r.threw \/ r.isNull THEN Some(<<>>) ELSE r.content
           IN  IF tryNext
               THEN /\ SettleAndIssue(c, req, outcome, ContentReq(ReadmeName(ar[c].try + 1)))
                    /\ ar' = [ar EXCEPT ![c].try = @ + 1]
                    /\ UNCHANGED <<pc, result>>
               ELSE /\ Settle(c, req, outcome)
                    /\ Return(c, Analysis(ar[c].repoData, readmeContent))
                    /\ UNCHANGED <<issued, ar>>
    /\ UNCHANGED <<world, op, args, fb, lf>>

NextAR ==
    \E c \in Calls :
        \/ ARStart(c)
        \/ ARRepoSettled(c)
        \/ ARReadmeSettled(c)

----------------------------------------------------------------------------
(* getTrendingRepos *)

\* dateMap: the lookback in days of each window keyword
DateMap == [daily |-> 1, weekly |-> 7, monthly |-> 30]

\* sinceDate.toISOString().split('T')[0] of the date `days` days before
\* Date.now(): dates are named by their distance from the evaluation time
DateString(days) ==
    CASE days = 1 -> "now-1d" [] days = 7 -> "now-7d" [] days = 30 -> "now-30d"

\* dateMap[since] is an inherited property (a function, truthy) for a
\* keyword that names a member of Object.prototype: || does not fall back
\* and sinceDate.toISOString is not a function
SinceDateThrows(since) == since \notin DOMAIN DateMap /\ since \in ObjectPrototypeKeys

\* dateMap[since] || dateMap.weekly
SinceDays(since) == IF since \in DOMAIN DateMap THEN DateMap[since] ELSE DateMap.weekly

TrendQuery(language, since) ==
    <<"created:>", DateString(SinceDays(since))>>
    \o (IF TruthyStr(language) THEN <<" language:", StrOf(language)>> ELSE <<>>)

TrendPerPage == 30

\* entry: the query is built and searchRepositories called; a throw while
\* building it is caught and [] returned
TRStart(c) ==
    /\ op[c] = "getTrendingRepos" /\ pc[c] = "start"
    /\ IF SinceDateThrows(args[c].since)
       THEN /\ Return(c, <<>>)
            /\ UNCHANGED <<inflight, issued>>
       ELSE /\ Issue(c, SearchReq(TrendQuery(args[c].language, args[c].since),
                                  PerPageOf(Some(TrendPerPage))))
            /\ pc' = [pc EXCEPT ![c] = "tr_search"]
            /\ UNCHANGED result
    /\ UNCHANGED <<world, op, args, log, fb, lf, ar>>

\* return await this.searchRepositories(...)
TRSearchSettled(c) ==
    /\ op[c] = "getTrendingRepos" /\ pc[c] = "tr_search"
    /\ \E req \in inflight[c], outcome \in Outcomes :
          /\ req.kind = "search.repos"
          /\ Settle(c, req, outcome)
          /\ Return(c, SearchRepositoriesReturn(req, outcome))
    /\ UNCHANGED <<world, op, args, issued, fb, lf, ar>>

NextTR ==
    \E c \in Calls :
        \/ TRStart(c)
        \/ TRSearchSettled(c)

----------------------------------------------------------------------------
(* Initial states: findBusinesses *)

\* a world findBusinesses is run against: an index and the account table of
\* the owners it names
WorldFB(ix, acc) ==
    [index |-> ix, accounts |-> acc, tree |-> NoTree, readmes |-> NoReadmes,
     repo |-> NoRepo]

\* call slot 1 runs `method` with arguments `a`; slot 2 stays idle
InitOne(method, a) ==
    /\ op = [c \in Calls |-> IF c = 1 THEN method ELSE "idle"]
    /\ args = [c \in Calls |-> a]
    /\ pc = [c \in Calls |-> IF c = 1 THEN "start" ELSE "idle"]
    /\ inflight = [c \in Calls |-> {}]
    /\ log = [c \in Calls |-> <<>>]
    /\ issued = [c \in Calls |-> <<>>]
    /\ result = [c \in Calls |-> Pending]
    /\ fb = [c \in Calls |-> FbIdle]
    /\ lf = [c \in Calls |-> <<>>]
    /\ ar = [c \in Calls |-> ArIdle]

NoArgs == [criteria |-> EmptyCriteria, path |-> "", extensions |-> <<>>,
           language |-> Undefined, since |-> "weekly"]

InitFB ==
    /\ \E ix \in IndexSet : \E acc \in [OwnersOf(ix) -> AccountValues] :
          world = WorldFB(ix, acc)
    /\ InitOne("findBusinesses", NoArgs)

\* one findBusinesses({}) call
SpecFB == InitFB /\ [][NextFB]_vars

----------------------------------------------------------------------------
(* Initial states: findBusinesses called with criteria *)

\* small snapshots: nothing at all, and one with a little of everything
EmptyWorld ==
    [index |-> <<>>, accounts |-> <<>>, tree |-> [d \in TreeDirs |-> <<>>],
     readmes |-> NoReadmes, repo |-> NoRepo]

SmallWorld ==
    [index |-> << [name |-> 1, owner |-> [login |-> "acme"], stargazers_count |-> 2],
                  [name |-> 2, owner |-> [login |-> "acme"], stargazers_count |-> 1],
                  [name |-> 3, owner |-> [login |-> "constructor"], stargazers_count |-> 1] >>,
     accounts |-> [o \in {"acme", "constructor"} |->
                      [type |-> "Organization", public_repos |-> 5]],
     tree |-> [d \in TreeDirs |->
                  IF d = "" THEN SubSeq(FullListing(""), 2, 3)
                  ELSE IF d = "src" THEN SubSeq(FullListing("src"), 2, 2) ELSE <<>>],
     readmes |-> NoReadmes, repo |-> NoRepo]

\* the values a caller gives a string key: absent, empty, a word
IndustryValues == {Undefined, Some(""), Some("fintech")}
TechnologyValues == {Undefined, Some("Go")}
LocationValues == {Undefined, Some("Berlin")}
CompanyValues == {Undefined, Some("acme")}
\* the values a caller gives minStars: absent, zero, a lower bound
MinStarsValues == {Undefined, Some(0), Some(500)}

\* the criteria a caller passes: every combination of the recognized keys,
\* and null
CriteriaValues ==
    { Criteria(ind, tech, loc, comp, minStars, Undefined) :
        ind \in IndustryValues, tech \in TechnologyValues, loc \in LocationValues,
        comp \in CompanyValues, minStars \in MinStarsValues }
    \cup {NullCriteria}

ArgsFB(criteria) == [NoArgs EXCEPT !.criteria = criteria]

InitCriteria ==
    /\ world \in {EmptyWorld, SmallWorld}
    /\ \E criteria \in CriteriaValues : InitOne("findBusinesses", ArgsFB(criteria))

\* one findBusinesses(criteria) call
SpecCriteria == InitCriteria /\ [][NextFB]_vars

----------------------------------------------------------------------------
(* Initial states: listRepoFiles *)

WorldLF(tree) ==
    [index |-> <<>>, accounts |-> <<>>, tree |-> tree, readmes |-> NoReadmes,
     repo |-> NoRepo]

\* the extension filters a caller passes
ExtensionFilters ==
    { <<>>, << <<".", "j", "s">> >>, << <<".", "J", "S">> >>,
      << <<".", "m", "d">>, <<".", "j", "s">> >> }

\* the paths a caller starts at: the root, a directory, a file
StartPaths == {"", "src", "c.md"}

ArgsLF(path, extensions) ==
    [NoArgs EXCEPT !.path = path, !.extensions = extensions]

InitLF ==
    /\ \E tree \in [TreeDirs -> UNION { SubListings(FullListing(d)) : d \in TreeDirs }] :
          /\ \A d \in TreeDirs : tree[d] \in SubListings(FullListing(d))
          /\ WellFormedTree(tree)
          /\ world = WorldLF(tree)
    /\ \E path \in StartPaths, extensions \in ExtensionFilters :
          InitOne("listRepoFiles", ArgsLF(path, extensions))

\* one listRepoFiles call
SpecLF == InitLF /\ [][NextLF]_vars

\* one listRepoFiles call that is not left suspended: every getContent
\* promise settles (resolves or rejects) and the continuation of a settled
\* await is run by the event loop
SpecLFFair == InitLF /\ [][NextLF]_vars /\ WF_vars(NextLF)

----------------------------------------------------------------------------
(* Initial states: analyzeRepository *)

ReadmeNames == {PrimaryReadme} \cup Range(ReadmeFiles)

\* README texts: one with business keywords, one without
KeywordText ==
    <<"W", "e", " ", "a", "r", "e", " ", "a", " ", "S", "a", "a", "S",
    " ", "c", "o", "m", "p", "a", "n", "y", " ", "p", "r", "o", "v",
    "i", "d", "i", "n", "g", " ", "a", "n", " ", "e", "n", "t", "e",
    "r", "p", "r", "i", "s", "e", " ", "p", "l", "a", "t", "f", "o",
    "r", "m">>
PlainText == <<"P", "l", "a", "i", "n", " ", "n", "o", "t", "e", "s">>

ReadmeValues == {AbsentFile, Directory, TextFile(KeywordText), TextFile(PlainText)}

Repo(license, description, homepage, stars, forks, daysAgo, topics) ==
    [exists |-> TRUE, license |-> license, description |-> description,
     homepage |-> homepage, stargazers_count |-> stars, forks_count |-> forks,
     updated_days_ago |-> daysAgo, topics |-> topics]

\* repository metadata: nothing set, everything set, one at the boundaries
\* (100 stars, 10 forks, updated 90 days ago, empty description, no topics
\* field), and the missing one
RepoValues ==
    { Repo(FALSE, Undefined, Undefined, 50, 2, 200, Some(<<>>)),
      Repo(TRUE, Some("text"), Some("https://example.com"), 101, 11, 89, Some(<<"saas">>)),
      Repo(TRUE, Some(""), Undefined, 100, 10, 90, Undefined),
      Repo(FALSE, Undefined, Undefined, 50, 2, 200, Undefined),
      NoRepo }

WorldAR(repo, readmes) ==
    [index |-> <<>>, accounts |-> <<>>, tree |-> NoTree, readmes |-> readmes,
     repo |-> repo]

InitAR ==
    /\ \E repo \in RepoValues, readmes \in [ReadmeNames -> ReadmeValues] :
          world = WorldAR(repo, readmes)
    /\ InitOne("analyzeRepository", NoArgs)

\* one analyzeRepository call
SpecAR == InitAR /\ [][NextAR]_vars

----------------------------------------------------------------------------
(* Initial states: fetchRepoFile *)

\* what the repository may hold under a name
FileValues ==
    {AbsentFile, Directory, TextFile(KeywordText), TextFile(PlainText), RawFile(PlainText)}

ArgsFF(filePath) == [NoArgs EXCEPT !.path = filePath]

InitFF ==
    /\ \E readmes \in [ReadmeNames -> FileValues] : world = WorldAR(NoRepo, readmes)
    /\ \E filePath \in {PrimaryReadme, "README"} :
          InitOne("fetchRepoFile", ArgsFF(filePath))

\* one fetchRepoFile call
SpecFF == InitFF /\ [][NextFF]_vars

----------------------------------------------------------------------------
(* Initial states: getTrendingRepos, and any single call *)

WindowKeywords == {"daily", "weekly", "monthly", "bogus", "constructor"}

Languages == {Undefined, Some("Go")}

ArgsTR(language, since) == [NoArgs EXCEPT !.language = language, !.since = since]

InitTR ==
    /\ \E ix \in IndexSet : \E acc \in [OwnersOf(ix) -> AccountValues] :
          world = WorldFB(ix, acc)
    /\ \E language \in Languages, since \in WindowKeywords :
          InitOne("getTrendingRepos", ArgsTR(language, since))

\* one getTrendingRepos call
SpecTR == InitTR /\ [][NextTR]_vars

Init == InitFB \/ InitLF \/ InitAR \/ InitTR \/ InitFF

Next == NextFB \/ NextLF \/ NextAR \/ NextTR \/ NextFF

\* one call of any method
Spec == Init /\ [][Next]_vars

----------------------------------------------------------------------------
(* Two calls of one method with the same arguments on one reader *)

\* a snapshot whose owners all pass the final filter: an organization met
\* first and third, and an account with a login of digits met second
RankedWorld ==
    [index |-> << [name |-> 1, owner |-> [login |-> "acme"], stargazers_count |-> 1],
                  [name |-> 2, owner |-> [login |-> "7"], stargazers_count |-> 2],
                  [name |-> 3, owner |-> [login |-> "acme"], stargazers_count |-> 2] >>,
     accounts |-> [o \in {"acme", "7"} |->
                      IF o = "acme" THEN [type |-> "Organization", public_repos |-> 5]
                      ELSE [type |-> "User", public_repos |-> 6]],
     tree |-> [d \in TreeDirs |-> <<>>],
     readmes |-> NoReadmes, repo |-> NoRepo]

PairMethods == {"findBusinesses", "listRepoFiles", "getTrendingRepos"}

InitPair ==
    /\ world \in {EmptyWorld, SmallWorld}
    /\ \E method \in PairMethods :
          /\ op = [c \in Calls |-> method]
          /\ args = [c \in Calls |-> NoArgs]
    /\ pc = [c \in Calls |-> "start"]
    /\ inflight = [c \in Calls |-> {}]
    /\ log = [c \in Calls |-> <<>>]
    /\ issued = [c \in Calls |-> <<>>]
    /\ result = [c \in Calls |-> Pending]
    /\ fb = [c \in Calls |-> FbIdle]
    /\ lf = [c \in Calls |-> <<>>]
    /\ ar = [c \in Calls |-> ArIdle]

NextPair == NextFB \/ NextLF \/ NextTR

InitTwoFB ==
    /\ world \in {SmallWorld, RankedWorld}
    /\ op = [c \in Calls |-> "findBusinesses"]
    /\ args = [c \in Calls |-> NoArgs]
    /\ pc = [c \in Calls |-> "start"]
    /\ inflight = [c \in Calls |-> {}]
    /\ log = [c \in Calls |-> <<>>]
    /\ issued = [c \in Calls |-> <<>>]
    /\ result = [c \in Calls |-> Pending]
    /\ fb = [c \in Calls |-> FbIdle]
    /\ lf = [c \in Calls |-> <<>>]
    /\ ar = [c \in Calls |-> ArIdle]

\* two findBusinesses calls on one reader, interleaved at their awaits
SpecTwoFB == InitTwoFB /\ [][NextFB]_vars

\* two calls of one method, interleaved at their awaits
SpecPair == InitPair /\ [][NextPair]_vars

----------------------------------------------------------------------------
(* Observations used by the properties *)

Done(c) == pc[c] = "done"

Returned(c) == result[c].kind = "return"

\* positions of the requests call c has issued to look owner o up
LookupsOf(c, o) == { i \in 1..Len(issued[c]) : issued[c][i] = UserReq(o) }

\* the outcomes of the settled lookups of owner o
LookupOutcomes(c, o) ==
    { log[c][i].outcome : i \in { j \in 1..Len(log[c]) : log[c][j].req = UserReq(o) } }

LookupFailed(c, o) == LookupOutcomes(c, o) \cap Rejections /= {}
LookupSucceeded(c, o) == "ok" \in LookupOutcomes(c, o)

\* the condensed repositories of owner o among the first n search results
RECURSIVE ReposOfOwner(_, _, _)
ReposOfOwner(repos, o, n) ==
    IF n = 0 THEN <<>>
    ELSE ReposOfOwner(repos, o, n - 1)
         \o (IF repos[n].owner = o
             THEN <<[name |-> repos[n].name, stars |-> repos[n].stars]>>
             ELSE <<>>)

\* all search results of owner o
MatchedRepos(c, o) == ReposOfOwner(fb[c].repositories, o, Len(fb[c].repositories))

\* the search results the loop has already dealt with
Processed(c) == IF fb[c].i = 0 THEN 0 ELSE fb[c].i - 1

\* the profiles of owner o in the returned sequence
ResultProfiles(c, o) ==
    { i \in 1..Len(result[c].value) : result[c].value[i].username = o }

\* summed stars of a returned profile
StarTotal(p) == SumSeq([i \in 1..Len(p.repositories) |-> p.repositories[i].stars])

----------------------------------------------------------------------------
(* Properties of findBusinesses *)

\* C1: within one findBusinesses call the owner-profile lookup is issued at
\* most once per distinct owner login, whatever the search results and
\* whichever lookups fail.
C1_LookupAtMostOncePerOwner ==
    \A c \in Calls : \A o \in Owners : Cardinality(LookupsOf(c, o)) <= 1

\* C1 witness: a finished call in which an owner with two or more matching
\* repositories had its (single) lookup fail.
C1_Witness ==
    \E c \in Calls : \E o \in Owners :
        /\ Done(c) /\ op[c] = "findBusinesses"
        /\ Len(MatchedRepos(c, o)) >= 2
        /\ LookupFailed(c, o)
        /\ Cardinality(LookupsOf(c, o)) = 1

\* C4 as stated: when the lookup of an owner fails, the returned sequence
\* contains a profile of that owner with type "unknown" holding the owner's
\* matched repositories.
C4_UnknownProfileReturned ==
    \A c \in Calls : \A o \in Owners :
        (Done(c) /\ op[c] = "findBusinesses" /\ LookupFailed(c, o)) =>
            \E i \in ResultProfiles(c, o) :
                /\ result[c].value[i].type = "unknown"
                /\ result[c].value[i].repositories = MatchedRepos(c, o)

\* C4 amended: when the lookup of an owner fails, the owner is kept in the
\* per-call map `businesses`: the map holds one entry for that owner, of type
\* "unknown", holding the owner's repositories processed so far.
C4_UnknownProfileInMap ==
    \A c \in Calls : \A o \in Owners :
        (op[c] = "findBusinesses" /\ LookupFailed(c, o)) =>
            /\ HasOwn(fb[c].businesses, o)
            /\ OwnValue(fb[c].businesses, o).type = "unknown"
            /\ OwnValue(fb[c].businesses, o).repositories
                   = ReposOfOwner(fb[c].repositories, o, Processed(c))

\* C4 witness: a call that returned after the lookup of an owner with two
\* matching repositories failed.
C4_Witness ==
    \E c \in Calls : \E o \in Owners :
        /\ Done(c) /\ op[c] = "findBusinesses" /\ LookupFailed(c, o)
        /\ fb[c].i > Len(fb[c].repositories)
        /\ Len(OwnValue(fb[c].businesses, o).repositories) = 2

\* C5 as stated: when some lookup fails, every other owner whose lookup
\* succeeds and whose account passes the final filter is in the returned
\* sequence with all of that owner's matched repositories.
C5_FailedLookupDoesNotAbort ==
    \A c \in Calls :
        (Done(c) /\ op[c] = "findBusinesses" /\ \E f \in Owners : LookupFailed(c, f)) =>
            \A o \in Owners :
                (LookupSucceeded(c, o) /\ IsBusiness(KnownProfile(o, world.accounts[o]))) =>
                    \E i \in ResultProfiles(c, o) :
                        result[c].value[i].repositories = MatchedRepos(c, o)

\* C6 as stated: the returned sequence holds a profile of owner O exactly if
\* O owns a search result and O's account is an organization or has more
\* than 5 public repositories (an owner whose lookup failed has the type
\* "unknown" and no repository count).
C6_ResultIffBusinessOwner ==
    \A c \in Calls :
        (Done(c) /\ op[c] = "findBusinesses") =>
            \A o \in Owners :
                (ResultProfiles(c, o) /= {})
                <=> /\ MatchedRepos(c, o) /= <<>>
                    /\ ~LookupFailed(c, o)
                    /\ \/ world.accounts[o].type = "Organization"
                       \/ world.accounts[o].public_repos > 5

\* C7: in the returned sequence a profile with a greater star total comes
\* before every profile with a smaller one.
C7_SortedByStarsDescending ==
    \A c \in Calls :
        (Done(c) /\ op[c] = "findBusinesses") =>
            \A i, j \in 1..Len(result[c].value) :
                StarTotal(result[c].value[i]) > StarTotal(result[c].value[j]) => i < j

\* C7 witness: two profiles were returned, and the one with the greater star
\* total belongs to the owner met later in the search results.
C7_Witness ==
    \E c \in Calls :
        /\ Done(c) /\ op[c] = "findBusinesses"
        /\ Len(result[c].value) = 2
        /\ StarTotal(result[c].value[1]) > StarTotal(result[c].value[2])
        /\ \E i, j \in 1..Len(fb[c].businesses) :
              /\ i < j
              /\ fb[c].businesses[j].key = result[c].value[1].username
              /\ fb[c].businesses[i].key = result[c].value[2].username

\* the requests of a kind that the caller aborted
Aborted(c, kind) ==
    { log[c][i].req : i \in { j \in 1..Len(log[c]) :
          log[c][j].req.kind = kind /\ log[c][j].outcome = "aborted" } }

AnyAborted(c) == Aborted(c, "search.repos") \cup Aborted(c, "users.getByUsername") /= {}

C11_MalformedCriteriaSignalsFailure ==
    \A c \in Calls :
        (Done(c) /\ op[c] = "findBusinesses" /\ args[c].criteria.isNull) =>
            /\ issued[c] = <<>>
            /\ ~Returned(c)

\* C11 amended: with malformed criteria (null) findBusinesses issues no
\* transport call at all and returns the empty sequence, the value of its
\* outer catch.
C11_MalformedCriteriaReturnsEmpty ==
    \A c \in Calls :
        (Done(c) /\ op[c] = "findBusinesses" /\ args[c].criteria.isNull) =>
            /\ issued[c] = <<>> /\ log[c] = <<>>
            /\ result[c] = [kind |-> "return", value |-> <<>>]

\* C11 witness: a findBusinesses(null) call has finished, against an index
\* that holds repositories.
C11_Witness ==
    \E c \in Calls :
        /\ Done(c) /\ op[c] = "findBusinesses" /\ args[c].criteria.isNull
        /\ world.index /= <<>>

\* a key of the criteria object is present
Present(x) == x /= Undefined

AnyKeyPresent(criteria) ==
    \/ Present(criteria.industry) \/ Present(criteria.technology)
    \/ Present(criteria.location) \/ Present(criteria.company)
    \/ Present(criteria.minStars)

\* one clause per present key, in the order industry, technology, location,
\* company, minStars
PresentKeyClauses(criteria) ==
       (IF Present(criteria.industry)
        THEN << <<"topic:", StrOf(criteria.industry)>> >> ELSE <<>>)
    \o (IF Present(criteria.technology)
        THEN << <<"language:", StrOf(criteria.technology)>> >> ELSE <<>>)
    \o (IF Present(criteria.location)
        THEN << <<"location:\"", StrOf(criteria.location), "\"">> >> ELSE <<>>)
    \o (IF Present(criteria.company)
        THEN << <<StrOf(criteria.company), " in:name,description">> >> ELSE <<>>)
    \o (IF Present(criteria.minStars)
        THEN << <<"stars:>=", StrOf(criteria.minStars)>> >> ELSE <<>>)

\* the query string of the search a findBusinesses call has issued
IssuedQuery(c) == issued[c][1].q

\* C12 as stated: the query of the search is the clauses of the present
\* recognized keys (minStars = 0 included) in the fixed order, joined by one
\* space, and it is 'type:org' exactly if no recognized key is present.
C12_QueryHoldsEveryPresentKey ==
    \A c \in Calls :
        (op[c] = "findBusinesses" /\ issued[c] /= <<>>) =>
            /\ AnyKeyPresent(args[c].criteria) =>
                  IssuedQuery(c) = Join(PresentKeyClauses(args[c].criteria), " ")
            /\ IssuedQuery(c) = <<"type:org">> <=> ~AnyKeyPresent(args[c].criteria)

\* the map a call builds from `repos` when run alone, given the outcomes its
\* own lookups had: after the first n repositories
RECURSIVE AloneMap(_, _, _)
AloneMap(c, repos, n) ==
    IF n = 0 THEN <<>>
    ELSE LET m == AloneMap(c, repos, n - 1)
             o == repos[n].owner
             entered == IF HasOwn(m, o) THEN m
                        ELSE SetNew(m, o, IF LookupSucceeded(c, o)
                                          THEN KnownProfile(o, world.accounts[o])
                                          ELSE UnknownProfile(o))
         IN  PushRepo(entered, o, CondensedRepo(repos[n]))

\* the value call c returns when run alone against the responses it has got
AloneResult(c) ==
    LET repos == SearchRepositoriesReturn(log[c][1].req, log[c][1].outcome)
    IN  IF \E i \in 1..Len(repos) : repos[i].owner \in ObjectPrototypeKeys
        THEN <<>>
        ELSE BusinessList(AloneMap(c, repos, Len(repos)))

\* everything call d holds
StateOf(d) == <<pc[d], inflight[d], log[d], issued[d], result[d], fb[d]>>

\* C23: two interleaved findBusinesses calls share no aggregation state: the
\* result of each is the result it returns alone against the same responses,
\* each call has looked every owner in its map up itself, exactly once, and
\* a step that changes the map of one call changes nothing of the other.
C23_CallsShareNoState ==
    /\ [](\A c \in Calls :
            /\ (Done(c) /\ log[c] /= <<>>) => result[c].value = AloneResult(c)
            /\ \A o \in Owners :
                  HasOwn(fb[c].businesses, o) => Cardinality(LookupsOf(c, o)) = 1)
    /\ [][\A c, d \in Calls :
            (c /= d /\ fb'[c] /= fb[c]) => StateOf(d)' = StateOf(d)]_vars

\* C23 witness: both calls have returned, one with a profile of an owner
\* whose lookup failed in the other call.
C23_Witness ==
    \E c, d \in Calls : \E o \in Owners :
        /\ c /= d /\ Done(c) /\ Done(d)
        /\ op[c] = "findBusinesses" /\ op[d] = "findBusinesses"
        /\ LookupSucceeded(c, o) /\ LookupFailed(d, o)
        /\ ResultProfiles(c, o) /= {} /\ ResultProfiles(d, o) = {}
        /\ result[d].value /= <<>>

\* the rank in the search results at which owner o is first met
FirstMet(c, o) ==
    CHOOSE i \in 1..Len(fb[c].repositories) :
        /\ fb[c].repositories[i].owner = o
        /\ \A j \in 1..(i - 1) : fb[c].repositories[j].owner /= o

\* C25 as stated: two returned profiles with equal star totals stand in the
\* order in which their owners were first met in the search results,
\* whatever the owner logins.
C25_TiesKeepEncounterOrder ==
    \A c \in Calls :
        (Done(c) /\ op[c] = "findBusinesses") =>
            \A i, j \in 1..Len(result[c].value) :
                (i < j /\ StarTotal(result[c].value[i]) = StarTotal(result[c].value[j])) =>
                    FirstMet(c, result[c].value[i].username)
                        < FirstMet(c, result[c].value[j].username)

\* C26: no profile of type "unknown" is ever in the returned sequence: an
\* owner whose lookup failed has an "unknown" entry in the map of the call
\* and no profile in the result.
C26_UnknownNeverReturned ==
    \A c \in Calls :
        (Done(c) /\ op[c] = "findBusinesses") =>
            /\ \A i \in 1..Len(result[c].value) : result[c].value[i].type /= "unknown"
            /\ \A o \in Owners :
                  LookupFailed(c, o) =>
                      /\ ResultProfiles(c, o) = {}
                      /\ HasOwn(fb[c].businesses, o)
                      /\ OwnValue(fb[c].businesses, o).type = "unknown"

\* C26 witness: a call went through all its search results and returned a
\* profile, while its map holds an "unknown" entry with a repository for an
\* owner whose lookup failed.
C26_Witness ==
    \E c \in Calls : \E o, p \in Owners :
        /\ Done(c) /\ op[c] = "findBusinesses"
        /\ fb[c].i > Len(fb[c].repositories)
        /\ "error" \in LookupOutcomes(c, o)
        /\ OwnValue(fb[c].businesses, o).repositories /= <<>>
        /\ ResultProfiles(c, p) /= {}

\* C27 as stated: once a findBusinesses call has finished, its map has
\* exactly one entry for every owner of a search result and none for any
\* other login, and the repositories of the entry of an owner are that
\* owner's search results, each once, in the order of the search result;
\* for every login and every pattern of lookup failures.
C27_MapPartitionsByOwner ==
    \A c \in Calls :
        (Done(c) /\ op[c] = "findBusinesses") =>
            \A o \in Owners :
                LET entries == { i \in 1..Len(fb[c].businesses) :
                                    fb[c].businesses[i].key = o }
                IN  IF MatchedRepos(c, o) = <<>>
                    THEN entries = {}
                    ELSE /\ Cardinality(entries) = 1
                         /\ OwnValue(fb[c].businesses, o).repositories = MatchedRepos(c, o)

----------------------------------------------------------------------------
(* Properties of listRepoFiles *)

\* the file entries of the tree at and below directory dir
RECURSIVE FilesBelow(_, _)
FilesBelow(tree, dir) ==
    { it \in Range(tree[dir]) : it.type = "file" }
    \cup UNION { FilesBelow(tree, it.path) : it \in { x \in Range(tree[dir]) : x.type = "dir" } }

\* the files of the tree under a start path (a file path is its own file)
FilesUnder(tree, path) ==
    IF IsDirPath(tree, path) THEN FilesBelow(tree, path)
    ELSE { it \in ItemsOf(tree) : it.type = "file" /\ it.path = path }

\* the directories of the tree at and below directory dir
RECURSIVE DirsBelow(_, _)
DirsBelow(tree, dir) ==
    {dir} \cup UNION { DirsBelow(tree, it.path) :
                       it \in { x \in Range(tree[dir]) : x.type = "dir" } }

\* a file name is selected by filter F: F is empty or holds the name's
\* lower-cased extension
Selects(F, name) == F = <<>> \/ ToLowerCase(Extname(name)) \in Range(F)

ExpectedPaths(c) ==
    { it.path : it \in { x \in FilesUnder(world.tree, args[c].path) :
                         Selects(args[c].extensions, x.name) } }

ReturnedPaths(c) == { result[c].value[i].path : i \in 1..Len(result[c].value) }

AllSettledOk(c) == \A i \in 1..Len(log[c]) : log[c][i].outcome = "ok"

\* the directories whose listing was requested and rejected
FailedDirs(c) ==
    { log[c][i].req.key : i \in { j \in 1..Len(log[c]) :
          /\ log[c][j].outcome \in Rejections
          /\ IsDirPath(world.tree, log[c][j].req.key) } }

\* C2 as stated: when no transport call fails, listRepoFiles returns exactly
\* the files of the tree under the start path that the filter selects (all
\* of them when the filter is empty), each once.
C2_ListsExactlySelectedFiles ==
    \A c \in Calls :
        (Done(c) /\ op[c] = "listRepoFiles" /\ AllSettledOk(c)) =>
            /\ Returned(c)
            /\ ReturnedPaths(c) = ExpectedPaths(c)
            /\ Len(result[c].value) = Cardinality(ExpectedPaths(c))

\* C3 as stated: when the listing of a directory D fails, the call still
\* returns, and its result holds every selected file of every directory
\* under the start path that is neither D nor below D.
C3_FailedSubtreeOnlyLosesItself ==
    \A c \in Calls :
        (Done(c) /\ op[c] = "listRepoFiles" /\ FailedDirs(c) /= {}) =>
            /\ Returned(c)
            /\ \A d \in DirsBelow(world.tree, args[c].path) :
                  (\A D \in FailedDirs(c) : d \notin DirsBelow(world.tree, D)) =>
                      \A it \in Range(world.tree[d]) :
                          (it.type = "file" /\ Selects(args[c].extensions, it.name))
                              => it.path \in ReturnedPaths(c)

\* the selected files at and below a listing, depth-first in listing order:
\* the files of a directory stand where the directory's entry stands
RECURSIVE DepthFirstFiles(_, _, _)
DepthFirstFiles(tree, items, F) ==
    IF items = <<>> THEN <<>>
    ELSE (IF Head(items).type = "file"
          THEN (IF Selects(F, Head(items).name) THEN <<Head(items).path>> ELSE <<>>)
          ELSE DepthFirstFiles(tree, tree[Head(items).path], F))
         \o DepthFirstFiles(tree, Tail(items), F)

\* the paths of the returned files, in the order returned
ReturnedPathSeq(c) == [i \in 1..Len(result[c].value) |-> result[c].value[i].path]

SelectsIgnoringCase(F, name) ==
    F = <<>> \/ \E i \in 1..Len(F) : ToLowerCase(F[i]) = ToLowerCase(Extname(name))

\* C18 as stated: when no transport call fails, a file under the start path
\* is returned exactly if the filter is empty or holds the file's extension,
\* letter case ignored on both sides ('A.JS' is selected by ['.js'], 'a.js'
\* by ['.JS']).
C18_FilterIgnoresCase ==
    \A c \in Calls :
        (Done(c) /\ op[c] = "listRepoFiles" /\ AllSettledOk(c)) =>
            \A it \in FilesUnder(world.tree, args[c].path) :
                it.path \in ReturnedPaths(c)
                    <=> SelectsIgnoringCase(args[c].extensions, it.name)

\* the paths call c has requested
IssuedKeys(c) == { issued[c][i].key : i \in 1..Len(issued[c]) }

\* the entries the traversal of call c has reached in the activations that
\* are running: those its loops are past, and the directory each awaiting
\* activation is waiting for
ReachedEntries(c) ==
    UNION { { lf[c][k].contents[j] :
                j \in { n \in 1..Len(lf[c][k].contents) :
                          n < lf[c][k].i \/ (n = lf[c][k].i /\ k < Len(lf[c])) } } :
            k \in 1..Len(lf[c]) }

\* C24: getContent is called once for the start path and once for each
\* directory entry the traversal reaches, and never for a file entry: no
\* path is requested twice, and the number of calls is the number of
\* directories visited.
C24_OneCallPerDirectoryVisited ==
    \A c \in Calls :
        op[c] = "listRepoFiles" =>
            /\ \A i, j \in 1..Len(issued[c]) : issued[c][i] = issued[c][j] => i = j
            /\ \A i \in 1..Len(issued[c]) :
                  /\ issued[c][i].kind = "repos.getContent"
                  /\ i = 1 => issued[c][i].key = args[c].path
                  /\ i > 1 => \E it \in ItemsOf(world.tree) :
                                  it.type = "dir" /\ it.path = issued[c][i].key
            /\ \A it \in ReachedEntries(c) :
                  /\ it.type = "dir" => it.path \in IssuedKeys(c)
                  /\ it.type = "file" =>
                        \A i \in 2..Len(issued[c]) : issued[c][i].key /= it.path
            /\ Done(c) => Len(issued[c]) = Cardinality(IssuedKeys(c))

\* C24 witness: a call over a tree with three files has finished after
\* three transport calls, one for each of the three directories.
C24_Witness ==
    \E c \in Calls :
        /\ Done(c) /\ op[c] = "listRepoFiles"
        /\ Len(issued[c]) = 3
        /\ IssuedKeys(c) = TreeDirs
        /\ Cardinality({ it \in ItemsOf(world.tree) : it.type = "file" }) = 3

\* the directories of the tree: the root and every directory a listing names
DirectoriesOf(tree) == { d \in TreeDirs : IsDirPath(tree, d) }

\* C28: on every tree, whatever the outcomes of the transport calls, a
\* listRepoFiles call never issues more getContent calls than the tree has
\* directories, and it eventually returns a sequence with no call left in
\* flight.
C28_ListFilesTerminates ==
    /\ [](\A c \in Calls :
            op[c] = "listRepoFiles" =>
                Len(issued[c]) <= Cardinality(DirectoriesOf(world.tree)))
    /\ \A c \in Calls :
          (op[c] = "listRepoFiles") ~>
              (Done(c) /\ Returned(c) /\ inflight[c] = {} /\ lf[c] = <<>>)

\* C28 witness: a call started at the root of a tree of three directories
\* has returned after three transport calls, one of which was rejected.
C28_Witness ==
    \E c \in Calls :
        /\ Done(c) /\ Returned(c) /\ op[c] = "listRepoFiles"
        /\ args[c].path = ""
        /\ Len(log[c]) = Cardinality(DirectoriesOf(world.tree))
        /\ Cardinality(DirectoriesOf(world.tree)) = 3
        /\ \E i \in 1..Len(log[c]) : log[c][i].outcome \in Rejections

----------------------------------------------------------------------------
(* Properties of fetchRepoFile *)

\* the file the fetchRepoFile call c asks for
FetchedFile(c) == world.readmes[args[c].path]

\* the getContent call of c was rejected
FetchRejected(c) ==
    \E i \in 1..Len(log[c]) : log[c][i].outcome \in Rejections

\* C15: fetchRepoFile never throws and issues exactly one transport call;
\* when the remote object does not exist or the transport call fails it
\* returns null.
C15_FetchNeverThrows ==
    \A c \in Calls :
        op[c] = "fetchRepoFile" =>
            /\ Len(issued[c]) <= 1
            /\ result[c].kind /= "throw"
            /\ Done(c) =>
                  /\ Returned(c)
                  /\ Len(issued[c]) = 1 /\ Len(log[c]) = 1
                  /\ (FetchedFile(c).kind = "absent" \/ FetchRejected(c))
                        => result[c].value.isNull

\* C15 witness: a fetchRepoFile call for a file that exists has returned
\* null after its transport call failed.
C15_Witness ==
    \E c \in Calls :
        /\ Done(c) /\ op[c] = "fetchRepoFile"
        /\ FetchedFile(c).kind = "file" /\ FetchRejected(c)
        /\ result[c].value.isNull

\* C16 as stated: a non-null value returned by fetchRepoFile has a content
\* that is a complete text: the decoded payload when the transport reports
\* base64, the payload as it is otherwise; it is never undefined.
C16_ContentIsCompleteText ==
    \A c \in Calls :
        (Done(c) /\ op[c] = "fetchRepoFile" /\ Returned(c) /\ ~result[c].value.isNull) =>
            /\ result[c].value.content /= Undefined
            /\ result[c].value.content = Some(FetchedFile(c).text)

----------------------------------------------------------------------------
(* Properties of analyzeRepository *)

\* the README names, primary first, then the fallbacks in order
ReadmeOrder == <<PrimaryReadme>> \o ReadmeFiles

\* the file names call c has requested, in request order
ContentRequests(c) ==
    LET idx == { i \in 1..Len(issued[c]) : issued[c][i].kind = "repos.getContent" }
        Nth(k) == CHOOSE i \in idx : Cardinality({ j \in idx : j < i }) = k - 1
    IN  [k \in 1..Cardinality(idx) |-> issued[c][Nth(k)].key]

\* position in ReadmeOrder of the first README the repository has as a file
\* (one past the end if it has none)
FirstReadme ==
    IF \E k \in 1..Len(ReadmeOrder) : world.readmes[ReadmeOrder[k]].kind = "file"
    THEN CHOOSE k \in 1..Len(ReadmeOrder) :
            /\ world.readmes[ReadmeOrder[k]].kind = "file"
            /\ \A j \in 1..(k - 1) : world.readmes[ReadmeOrder[j]].kind /= "file"
    ELSE Len(ReadmeOrder) + 1

\* the text keyword matching should run against
FirstReadmeText ==
    IF FirstReadme <= Len(ReadmeOrder) THEN world.readmes[ReadmeOrder[FirstReadme]].text
    ELSE <<>>

\* the repository holds files or nothing under the README names, and no
\* request for a file that exists was rejected
OnlyAbsentRejected(c) ==
    /\ \A n \in ReadmeNames : world.readmes[n].kind /= "dir"
    /\ \A i \in 1..Len(log[c]) :
          log[c][i].outcome \in Rejections =>
              /\ log[c][i].req.kind = "repos.getContent"
              /\ world.readmes[log[c][i].req.key].kind = "absent"

\* C8 as stated: README.md is requested first; when it is absent README.rst,
\* README.txt and README are requested in that order up to the first one
\* found, and the keywords are matched against the first file found.
C8_ReadmeFallbackOrder ==
    \A c \in Calls :
        (Done(c) /\ op[c] = "analyzeRepository" /\ OnlyAbsentRejected(c)) =>
            /\ ContentRequests(c) = SubSeq(ReadmeOrder, 1, Min(FirstReadme, Len(ReadmeOrder)))
            /\ ~result[c].value.isNull
            /\ result[c].value.keywordMatches
                   = KeywordMatches(BusinessKeywords, FirstReadmeText)

\* the analysis a finished analyzeRepository call returned
Analysed(c) ==
    Done(c) /\ op[c] = "analyzeRepository" /\ Returned(c) /\ ~result[c].value.isNull

\* the indicators of a returned analysis whose value is true
IndicatorsTrue(v) ==
    { k \in DOMAIN v.businessIndicators : v.businessIndicators[k] = "true" }

\* C13: every returned analysis has businessScore = (number of indicators
\* that are true) + (number of matched keywords), and the score lies between
\* 0 and 7 + 16, the number of indicators plus the length of the keyword list.
C13_ScoreIsIndicatorsPlusKeywords ==
    \A c \in Calls :
        Analysed(c) =>
            LET v == result[c].value
            IN  /\ v.businessScore = Cardinality(IndicatorsTrue(v)) + Len(v.keywordMatches)
                /\ Cardinality(DOMAIN v.businessIndicators) = 7
                /\ Len(BusinessKeywords) = 16
                /\ 0 <= v.businessScore /\ v.businessScore <= 7 + 16

\* C13 witness: an analysis was returned with four keywords matched and one
\* indicator true, its hasTopics indicator being neither true nor false (the
\* metadata has no topics field).
C13_Witness ==
    \E c \in Calls :
        /\ Analysed(c)
        /\ Len(result[c].value.keywordMatches) = 4
        /\ result[c].value.businessIndicators.hasTopics = "undefined"
        /\ result[c].value.businessScore = 5

\* the README text call c has read: the text of README.md when its fetch
\* succeeded, the empty text otherwise
ReadmeTextRead(c) ==
    IF /\ \E i \in 1..Len(log[c]) :
             log[c][i].req = ContentReq(PrimaryReadme) /\ log[c][i].outcome = "ok"
       /\ world.readmes[PrimaryReadme].kind = "file"
    THEN world.readmes[PrimaryReadme].text
    ELSE <<>>

\* C19: keyword k of the vocabulary is in keywordMatches exactly if the
\* lower-cased README text contains k, and no keyword is in it twice; for the
\* README "We are a SaaS company providing an enterprise platform" the
\* matches include saas, company, enterprise and platform.
C19_KeywordsMatchedBySubstring ==
    \A c \in Calls :
        Analysed(c) =>
            LET kw == result[c].value.keywordMatches
                text == ReadmeTextRead(c)
            IN  /\ \A k \in Range(BusinessKeywords) :
                      k \in Range(kw) <=> Includes(ToLowerCase(text), k)
                /\ \A i, j \in 1..Len(kw) : kw[i] = kw[j] => i = j
                /\ Range(kw) \subseteq Range(BusinessKeywords)
                /\ text = KeywordText =>
                      { <<"s", "a", "a", "s">>, <<"c", "o", "m", "p", "a", "n", "y">>,
                        <<"e", "n", "t", "e", "r", "p", "r", "i", "s", "e">>,
                        <<"p", "l", "a", "t", "f", "o", "r", "m">> } \subseteq Range(kw)

\* C19 witness: an analysis was returned for a repository whose README.md is
\* "We are a SaaS company providing an enterprise platform", with exactly four
\* keywords matched.
C19_Witness ==
    \E c \in Calls :
        /\ Analysed(c)
        /\ ReadmeTextRead(c) = KeywordText
        /\ Len(result[c].value.keywordMatches) = 4

\* the repository metadata lookup of call c was rejected
RepoLookupFailed(c) ==
    \E i \in 1..Len(log[c]) : log[c][i].req = RepoReq /\ log[c][i].outcome \in Rejections

\* every README fetch call c has made was rejected
NoReadmeRetrieved(c) ==
    \A i \in 1..Len(log[c]) :
        log[c][i].req.kind = "repos.getContent" => log[c][i].outcome \in Rejections

\* C20 as stated: analyzeRepository always returns; it returns null exactly
\* if the repository metadata lookup fails; and when no README can be
\* retrieved it returns an analysis with zero matched keywords.
C20_NullIffMetadataLookupFails ==
    \A c \in Calls :
        (Done(c) /\ op[c] = "analyzeRepository") =>
            /\ Returned(c)
            /\ result[c].value.isNull <=> RepoLookupFailed(c)
            /\ (~RepoLookupFailed(c) /\ NoReadmeRetrieved(c)) =>
                  /\ ~result[c].value.isNull
                  /\ result[c].value.keywordMatches = <<>>

\* the repository has nothing set: no license, description, homepage or
\* topics (absent or empty), 50 stars, 2 forks, updated 200 days ago
BareRepo(repoData) ==
    /\ ~repoData.license
    /\ repoData.description = Undefined /\ repoData.homepage = Undefined
    /\ repoData.topics \in {Undefined, Some(<<>>)}
    /\ repoData.stargazers_count = 50 /\ repoData.forks_count = 2
    /\ repoData.updated_days_ago = 200

\* C21 as stated: every indicator of a returned analysis is a boolean;
\* highStars is true iff stars > 100, hasContributors iff forks > 10,
\* activeMaintenance iff updated less than 90 days ago, and hasLicense,
\* hasDescription, hasWebsite, hasTopics iff the field is set and not empty.
\* For the repository with nothing set and no README every indicator is
\* false, no keyword is matched and the score is 0.
C21_IndicatorsAreBooleans ==
    \A c \in Calls :
        Analysed(c) =>
            LET ind == result[c].value.businessIndicators
                repoData == world.repo
            IN  /\ \A k \in DOMAIN ind : ind[k] \in {"true", "false"}
                /\ ind.highStars = "true" <=> repoData.stargazers_count > 100
                /\ ind.hasContributors = "true" <=> repoData.forks_count > 10
                /\ ind.activeMaintenance = "true" <=> repoData.updated_days_ago < 90
                /\ ind.hasLicense = "true" <=> repoData.license
                /\ ind.hasDescription = "true"
                      <=> repoData.description \notin {Undefined, Some("")}
                /\ ind.hasWebsite = "true"
                      <=> repoData.homepage \notin {Undefined, Some("")}
                /\ ind.hasTopics = "true"
                      <=> repoData.topics \notin {Undefined, Some(<<>>)}
                /\ (BareRepo(repoData) /\ NoReadmeRetrieved(c)) =>
                      /\ \A k \in DOMAIN ind : ind[k] = "false"
                      /\ result[c].value.keywordMatches = <<>>
                      /\ result[c].value.businessScore = 0

----------------------------------------------------------------------------
(* Properties of getTrendingRepos *)

\* the lookback in days stated for a window keyword: 1, 7 and 30 for daily,
\* weekly and monthly, 7 for every other keyword
StatedWindowDays(since) ==
    CASE since = "daily" -> 1
      [] since = "monthly" -> 30
      [] OTHER -> 7

\* C14 as stated: whatever the window keyword, getTrendingRepos executes one
\* search whose created-after date lies 1 (daily), 7 (weekly), 30 (monthly)
\* or, for every other keyword, 7 days before evaluation time.
C14_WindowFallsBackToWeekly ==
    \A c \in Calls :
        (Done(c) /\ op[c] = "getTrendingRepos") =>
            /\ Len(issued[c]) = 1
            /\ issued[c][1].kind = "search.repos"
            /\ SubSeq(issued[c][1].q, 1, 2)
                   = <<"created:>", DateString(StatedWindowDays(args[c].since))>>

----------------------------------------------------------------------------
(* Properties of the transport calls of one public call *)

\* C22: within one public call at most one transport call is in flight at
\* any time: every call issued so far has completed, except possibly the
\* last one.
C22_OneTransportCallInFlight ==
    \A c \in Calls :
        /\ Cardinality(inflight[c]) <= 1
        /\ Len(issued[c]) = Len(log[c]) + Cardinality(inflight[c])
        /\ \A i \in 1..Len(log[c]) : log[c][i].req = issued[c][i]

\* C22 witness: a public call has a transport call in flight after two
\* earlier ones have completed, one of them failed.
C22_Witness ==
    \E c \in Calls :
        /\ Cardinality(inflight[c]) = 1
        /\ Len(log[c]) >= 2
        /\ \E i \in 1..Len(log[c]) : log[c][i].outcome \in Rejections

----------------------------------------------------------------------------
(* Properties of what the caller receives *)

\* the first transport call of call c was rejected
FirstCallFailed(c) == Len(log[c]) >= 1 /\ log[c][1].outcome \in Rejections

\* the first transport call of call c (the search, or the listing of the
\* start directory) succeeded with zero entries
FirstCallEmpty(c) ==
    /\ Len(log[c]) >= 1 /\ log[c][1].outcome = "ok"
    /\ \/ log[c][1].req.kind = "search.repos" /\ SearchItems(log[c][1].req) = <<>>
       \/ /\ log[c][1].req.kind = "repos.getContent"
          /\ ContentData(world.tree, log[c][1].req.key).items = <<>>

\* two finished calls of one method with the same arguments, the first
\* transport call of a rejected, that of b answered with zero entries
FailedAndEmptyRuns(a, b) ==
    /\ Done(a) /\ Done(b)
    /\ op[a] = op[b] /\ op[a] \in PairMethods /\ args[a] = args[b]
    /\ FirstCallFailed(a) /\ FirstCallEmpty(b)

\* C10 as stated: the caller can tell a run whose first transport call
\* failed from a run in which that call succeeded with zero entries.
C10_FailureDistinguishable ==
    \A a, b \in Calls : FailedAndEmptyRuns(a, b) => result[a] /= result[b]

\* C10 amended: for findBusinesses, getTrendingRepos and listRepoFiles a run
\* whose first transport call fails returns the empty sequence, the very
\* value of a run in which that call succeeds with zero entries.
C10_FailureLooksEmpty ==
    \A a, b \in Calls :
        FailedAndEmptyRuns(a, b) =>
            /\ result[a] = result[b]
            /\ result[a] = [kind |-> "return", value |-> <<>>]

\* C10 witness: two listRepoFiles calls have finished, the root listing of
\* one rejected, that of the other answered with an empty directory.
C10_Witness ==
    \E a, b \in Calls : FailedAndEmptyRuns(a, b) /\ op[a] = "listRepoFiles"

=============================================================================
